---- MODULE Spec2Model ----
(***************************************************************************)
(* The scripts of ml_training_scripts as one state machine.  A behaviour   *)
(* is one run of one script (train_model, train_custom_features,           *)
(* export_onnx or explore_data) against a filesystem: the module-level     *)
(* code of the script, then the steps of its main() in program order.  An  *)
(* uncaught exception ends the run in pc = "failed".                       *)
(*                                                                         *)
(* Library calls are modelled by their contract.  The generators seeded    *)
(* with RANDOM_STATE are deterministic but opaque: their stream is         *)
(* represented by `seed', drawn once per run, and every shuffle or draw is *)
(* a function of it.                                                       *)
(***************************************************************************)
EXTENDS Integers, Sequences, FiniteSets, TLC

VARIABLES
    script,       \* the script being run
    pc,           \* position in the script
    seed,         \* the stream of the generator seeded with RANDOM_STATE
    dirs,         \* directories that exist
    fs,           \* file name -> content
    df,           \* the table read from DATA_PATH
    X,            \* the feature table: row id -> feature record
    feature_names,\* X.columns.tolist()
    X_train,      \* partitions: sets of rows
    X_val,
    X_test,
    X_balanced,   \* the training partition after SMOTE
    model,        \* the fitted (or unpickled) classifier
    metadata,     \* export_onnx: the unpickled metadata
    metrics,      \* what evaluate_model returned
    initial_type, \* export_onnx: the width of the declared input
    onnx_model,   \* what convert_sklearn returned
    parity,       \* outcome of the parity check
    trace,        \* the steps that have run, in order
    fitInput,     \* the rows handed to model.fit
    evalInput,    \* the partitions handed to evaluate_model
    compared,     \* the ONNX model the parity check ran
    packages,     \* library -> what importing it does
    output        \* verify_setup: the lines reported, in order

vars == <<script, pc, seed, dirs, fs, df, X, feature_names, X_train, X_val,
          X_test, X_balanced, model, metadata, metrics, initial_type, onnx_model,
          parity, trace, fitInput, evalInput, compared, packages, output>>

(***************************************************************************)
(* Bounds of the model.                                                    *)
(***************************************************************************)
MaxRows == 22
MaxSeed == 1
ExtraRows == 1

(***************************************************************************)
(* Constants of the program.                                               *)
(***************************************************************************)
TEST_SIZE_PCT == 20
VAL_SIZE_PCT == 20
K_NEIGHBORS == 5
SAMPLE_N == 100
N_ESTIMATORS == 200
MAX_DEPTH == 20
RANDOM_STATE == 42
CUSTOM_WIDTH == 7

DATA_PATH == "data/creditcard.csv"
FIGURES_PATH == "data/figures"
MODEL_PATH == "models"
ONNX_MODEL_PATH == "models/fraud_model.onnx"
CUSTOM_ONNX_MODEL_PATH == "fraud-consumer/src/main/resources/fraud_model.onnx"
CUSTOM_ONNX_DIR == "fraud-consumer/src/main/resources"

MODEL_FILE == "models/fraud_model.pkl"
METADATA_FILE == "models/model_metadata.pkl"
FEATURE_FILE == "models/feature_names.txt"
FEATURE_DOC == "models/FEATURE_ORDER.md"
CUSTOM_MODEL_FILE == "models/fraud_model_custom.pkl"
CUSTOM_METADATA_FILE == "models/metadata_custom.pkl"
JAVA_FEATURE_DOC == "models/JAVA_FEATURE_ORDER.md"
CONFUSION_PNG == "models/confusion_matrix.png"
ROC_PNG == "models/roc_curve.png"
IMPORTANCE_PNG == "models/feature_importance.png"

Figures == {"data/figures/class_distribution.png", "data/figures/time_analysis.png",
            "data/figures/amount_analysis.png", "data/figures/feature_correlation.png"}

\* The model artifacts: pickles, ONNX files and feature-order documents.
ModelArtifacts == {MODEL_FILE, METADATA_FILE, FEATURE_FILE, FEATURE_DOC,
                   ONNX_MODEL_PATH, CUSTOM_ONNX_MODEL_PATH, CUSTOM_MODEL_FILE,
                   CUSTOM_METADATA_FILE, JAVA_FEATURE_DOC}

Files == {DATA_PATH} \cup ModelArtifacts \cup Figures
             \cup {CONFUSION_PNG, ROC_PNG, IMPORTANCE_PNG}

Scripts == {"train_model", "train_custom_features", "export_onnx", "explore_data",
            "verify_setup"}

(***************************************************************************)
(* Values.                                                                 *)
(***************************************************************************)
Absent == [kind |-> "absent", run |-> "none", body |-> <<>>]
Exists(f) == fs[f].kind # "absent"

\* A file written by the run under way, and one left by an earlier run.
Written(kind, body) == [kind |-> kind, run |-> "this", body |-> body]
Prior(kind, body) == [kind |-> kind, run |-> "prior", body |-> body]

NoTable == [cols |-> <<>>, rows |-> <<>>]
NoModel == [kind |-> "none", n_features |-> 0, thr |-> 0]
NoMetrics == [kind |-> "none"]
NoOnnx == [kind |-> "none"]
NoParity == [kind |-> "none"]

\* The columns of creditcard.csv: Time, V1..V28, Amount, Class.
VNames == <<"V1", "V2", "V3", "V4", "V5", "V6", "V7", "V8", "V9", "V10",
            "V11", "V12", "V13", "V14", "V15", "V16", "V17", "V18", "V19",
            "V20", "V21", "V22", "V23", "V24", "V25", "V26", "V27", "V28">>
CsvColumns == <<"Time">> \o VNames \o <<"Amount", "Class">>

\* df.drop(['Class'], axis=1).columns
DropClass(cols) == SelectSeq(cols, LAMBDA c : c # "Class")

\* A table of n rows of which the first f are frauds; Time advances by
\* `step' seconds a row, Amount (in cents) cycles.
Table(n, f, step) ==
    [cols |-> CsvColumns,
     rows |-> [i \in 1..n |->
                 [Time |-> (i - 1) * step,
                  Amount |-> 125 * ((i * 7) % 10),
                  Class |-> IF i <= f THEN 1 ELSE 0]]]

\* A row of a partition: its index label in the table, its label, and for a
\* synthetic row the two rows it interpolates.
Row(t, i) == [id |-> i, y |-> t.rows[i].Class, src |-> {}]
Rows(t) == {Row(t, i) : i \in DOMAIN t.rows}

(***************************************************************************)
(* sklearn.model_selection.train_test_split(..., stratify=y)               *)
(***************************************************************************)
Class(S, c) == {r \in S : r.y = c}
Count(S, c) == Cardinality(Class(S, c))
Classes(S) == {r.y : r \in S}
Ids(S) == {r.id : r \in S}

\* The k-th row of S in index order, k in 1..|S|.
Nth(S, k) == CHOOSE r \in S : Cardinality({q \in S : q.id < r.id}) = k - 1

\* rng.permutation of the rows of one class: the k-th row of the shuffled
\* class.  The shuffle is a function of the stream alone.
Shuffled(S, s, k) == Nth(S, ((k - 1 + s) % Cardinality(S)) + 1)

\* ceil(test_size * n_samples), and the rest for training.
NTest(n, pct) == (pct * n + 99) \div 100
NTrain(n, pct) == n - NTest(n, pct)

\* _approximate_mode: the training rows each class gets, floor of its
\* proportional share, the row left over going to the larger remainder
\* (a draw of the generator on a tie).
Floored(S, c, pct) == (Count(S, c) * NTrain(Cardinality(S), pct)) \div Cardinality(S)
Remainder(S, c, pct) == (Count(S, c) * NTrain(Cardinality(S), pct)) % Cardinality(S)
NeedToAdd(S, pct) ==
    NTrain(Cardinality(S), pct) - Floored(S, 0, pct) - Floored(S, 1, pct)
Favoured(S, s, pct) ==
    IF Remainder(S, 0, pct) > Remainder(S, 1, pct) THEN 0
    ELSE IF Remainder(S, 1, pct) > Remainder(S, 0, pct) THEN 1
    ELSE s % 2
ClassTrain(S, c, s, pct) ==
    Floored(S, c, pct)
      + (IF NeedToAdd(S, pct) > 0 /\ Favoured(S, s, pct) = c THEN 1 ELSE 0)

\* The ValueErrors of train_test_split and StratifiedShuffleSplit.
SplitRaises(S, pct) ==
    \/ Cardinality(S) = 0
    \/ NTrain(Cardinality(S), pct) = 0
    \/ \E c \in Classes(S) : Count(S, c) < 2
    \/ NTrain(Cardinality(S), pct) < Cardinality(Classes(S))
    \/ NTest(Cardinality(S), pct) < Cardinality(Classes(S))

\* The place of row r in its shuffled class C: Shuffled(C, s, Position(C, s, r)) = r.
Position(C, s, r) ==
    ((Cardinality({q \in C : q.id < r.id}) + Cardinality(C) - (s % Cardinality(C)))
        % Cardinality(C)) + 1

\* Each class is shuffled; its first ClassTrain rows go to the training
\* side and the rest of it to the test side.
ClassPart(C, s, lo, hi) == {r \in C : Position(C, s, r) \in lo..hi}
SplitTrain(S, s, pct) ==
    UNION {ClassPart(C, s, 1, k)
             : <<C, k>> \in {<<Class(S, c), ClassTrain(S, c, s, pct)>> : c \in Classes(S)}}
SplitTest(S, s, pct) ==
    UNION {ClassPart(C, s, k + 1, Cardinality(C))
             : <<C, k>> \in {<<Class(S, c), ClassTrain(S, c, s, pct)>> : c \in Classes(S)}}

\* The rows are bound once, whatever expression they are given as.
train_test_split(S, s, pct) ==
    CHOOSE parts \in {[train |-> SplitTrain(T, s, pct), test |-> SplitTest(T, s, pct)]
                        : T \in {S}} : TRUE

(***************************************************************************)
(* imblearn.over_sampling.SMOTE(random_state=RANDOM_STATE).fit_resample    *)
(***************************************************************************)
Majority(S) == IF Count(S, 1) > Count(S, 0) THEN 1 ELSE 0
Minority(S) == 1 - Majority(S)
Deficit(S) == Count(S, Majority(S)) - Count(S, Minority(S))

\* One class only, or a minority too small for its k nearest neighbours.
SmoteRaises(S) ==
    \/ Cardinality(Classes(S)) < 2
    \/ Deficit(S) > 0 /\ Count(S, Minority(S)) <= K_NEIGHBORS

\* The j-th synthetic row: a minority row drawn by the generator and one of
\* its K_NEIGHBORS nearest minority rows, interpolated.  The neighbours of
\* a row are taken to be the K_NEIGHBORS rows that follow it in the class.
Synthetic(S, s, j, base) ==
    [id |-> base + j,
     y |-> Minority(S),
     src |-> {Shuffled(Class(S, Minority(S)), s, j).id,
              Shuffled(Class(S, Minority(S)), s, j + 1 + (j % K_NEIGHBORS)).id}]

\* A resampler that balances by dropping rows of the majority class.
fit_resample_Undersampled(S, s, base) ==
    Class(S, Minority(S))
       \cup {r \in Class(S, Majority(S)) :
                Position(Class(S, Majority(S)), s, r) <= Count(S, Minority(S))}

\* Every row of S, then Deficit(S) synthetic rows of the minority class.
\* `base' is the first index label free for them.
fit_resample(S, s, base) ==
    S \cup {Synthetic(S, s, j, base) : j \in 1..Deficit(S)}
(***************************************************************************)
(* The classifier and its metrics.                                         *)
(***************************************************************************)
\* RandomForestClassifier.fit is opaque: the fitted forest is represented by
\* its decision function, which flags the rows up to an index label.
MaxId(S) == IF S = {} THEN 0 ELSE CHOOSE i \in Ids(S) : \A j \in Ids(S) : j <= i
Thresholds(S) == {0, MaxId({r \in Class(S, 1) : r.src = {}}), MaxId(S)}
Fitted(width, thr) == [kind |-> "rf", n_features |-> width, thr |-> thr]
Predict(m, r) == IF r.id <= m.thr THEN 1 ELSE 0

\* confusion_matrix(y, model.predict(X)).ravel()
Confusion(m, S) ==
    [tn |-> Cardinality({r \in S : r.y = 0 /\ Predict(m, r) = 0}),
     fp |-> Cardinality({r \in S : r.y = 0 /\ Predict(m, r) = 1}),
     fn |-> Cardinality({r \in S : r.y = 1 /\ Predict(m, r) = 0}),
     tp |-> Cardinality({r \in S : r.y = 1 /\ Predict(m, r) = 1})]

\* A float as a fraction <<numerator, denominator>>; 0/0 is NaN.
NaN == <<0, 0>>
Zero == <<0, 1>>

\* roc_auc_score on the scores of the decision function: the mean of the
\* true positive and true negative rates.
RocAuc(cm) == <<cm.tp * (cm.tn + cm.fp) + cm.tn * (cm.tp + cm.fn),
                2 * (cm.tp + cm.fn) * (cm.tn + cm.fp)>>

\* roc_auc_score raises on a partition with one class only.
RocAucRaises(S) == Cardinality(Classes(S)) < 2

\* train_model.evaluate_model: numpy integer division, unguarded.
TM_Precision(cm) == <<cm.tp, cm.tp + cm.fp>>
TM_Recall(cm) == <<cm.tp, cm.tp + cm.fn>>
TM_F1(cm) ==
    IF cm.tp + cm.fp = 0 \/ cm.tp + cm.fn = 0 \/ cm.tp = 0 THEN NaN
    ELSE <<2 * cm.tp, 2 * cm.tp + cm.fp + cm.fn>>
TM_Metrics(cm) ==
    [precision |-> TM_Precision(cm), recall |-> TM_Recall(cm),
     f1 |-> TM_F1(cm), roc_auc |-> RocAuc(cm)]

\* train_custom_features.evaluate_model: 0 when a denominator is 0.
CF_Precision(cm) == IF cm.tp + cm.fp > 0 THEN <<cm.tp, cm.tp + cm.fp>> ELSE Zero
CF_Recall(cm) == IF cm.tp + cm.fn > 0 THEN <<cm.tp, cm.tp + cm.fn>> ELSE Zero
CF_F1(cm) ==
    IF CF_Precision(cm)[1] > 0 \/ CF_Recall(cm)[1] > 0
    THEN <<2 * cm.tp, 2 * cm.tp + cm.fp + cm.fn>>
    ELSE Zero
CF_Metrics(cm) ==
    [precision |-> CF_Precision(cm), recall |-> CF_Recall(cm),
     f1 |-> CF_F1(cm), roc_auc |-> RocAuc(cm)]

\* A metadata dict without the number of trees.
SavedMetadata_NoEstimators(names, m) ==
    [model_type |-> "RandomForestClassifier",
     max_depth |-> MAX_DEPTH,
     features |-> names,
     n_features |-> Len(names),
     metrics |-> m,
     random_state |-> RANDOM_STATE]

\* The metadata dict of train_model.save_model.
SavedMetadata(names, m) ==
    [model_type |-> "RandomForestClassifier",
     n_estimators |-> N_ESTIMATORS,
     max_depth |-> MAX_DEPTH,
     features |-> names,
     n_features |-> Len(names),
     metrics |-> m,
     random_state |-> RANDOM_STATE]

(***************************************************************************)
(* The initial states: a script, a filesystem, a stream.                   *)
(***************************************************************************)
TrainTables == UNION {{Table(n, f, 30000) : f \in 0..n} : n \in 0..MaxRows}
PriorMetrics == TM_Metrics([tn |-> 3, fp |-> 1, fn |-> 1, tp |-> 1])

\* A dataset without the column V28.
NarrowColumns == <<"Time">> \o SubSeq(VNames, 1, 27) \o <<"Amount", "Class">>

\* The content an earlier run of the scripts left in a file; the pickles
\* are those a completed train_model left, run on a table of columns `cols'.
PriorContentOf(f, cols) ==
    IF f = MODEL_FILE THEN Prior("pkl", Fitted(Len(DropClass(cols)), 2))
    ELSE IF f = METADATA_FILE
         THEN Prior("pkl", SavedMetadata(DropClass(cols), PriorMetrics))
    ELSE Prior("old", <<>>)
PriorContent(f) ==
    PriorContentOf(f, IF Exists(DATA_PATH) THEN fs[DATA_PATH].body.cols ELSE CsvColumns)

\* A filesystem holding the files of `present', the dataset being `csv'.
FileSystem(csv, present) ==
    [f \in Files |->
        IF f = DATA_PATH THEN csv
        ELSE IF f \in present
             THEN PriorContentOf(f, IF csv = Absent THEN CsvColumns ELSE csv.body.cols)
        ELSE Absent]

DirsOf(files, extra) ==
    {d \in {"data", FIGURES_PATH, MODEL_PATH, CUSTOM_ONNX_DIR} :
        \/ d \in extra
        \/ d = "data" /\ (DATA_PATH \in files \/ FIGURES_PATH \in extra
                             \/ files \cap Figures # {})
        \/ d = FIGURES_PATH /\ files \cap Figures # {}
        \/ d = MODEL_PATH /\ \E f \in files : f \in ModelArtifacts \ {CUSTOM_ONNX_MODEL_PATH}
        \/ d = CUSTOM_ONNX_DIR /\ CUSTOM_ONNX_MODEL_PATH \in files}

Start(sc, s, csv, present, extra) ==
    /\ script = sc
    /\ pc = "import"
    /\ seed = s
    /\ fs = FileSystem(csv, present)
    /\ dirs = DirsOf(present \cup (IF csv = Absent THEN {} ELSE {DATA_PATH}), extra)
    /\ df = NoTable
    /\ X = <<>>
    /\ feature_names = <<>>
    /\ X_train = {}
    /\ X_val = {}
    /\ X_test = {}
    /\ X_balanced = {}
    /\ model = NoModel
    /\ metadata = NoMetrics
    /\ metrics = NoMetrics
    /\ initial_type = 0
    /\ onnx_model = NoOnnx
    /\ parity = NoParity
    /\ trace = <<>>
    /\ fitInput = {}
    /\ evalInput = [val |-> {}, test |-> {}]
    /\ compared = NoOnnx
    /\ output = <<>>
Csvs(tables) == {Absent} \cup {Prior("csv", t) : t \in tables}

TM_Outputs == {MODEL_FILE, METADATA_FILE, FEATURE_FILE, CONFUSION_PNG, ROC_PNG,
               IMPORTANCE_PNG}

InitTrainModel ==
    \E s \in 0..MaxSeed, csv \in Csvs(TrainTables), present \in {{}, TM_Outputs} :
        Start("train_model", s, csv, present, {})

(***************************************************************************)
(* train_model.py                                                          *)
(***************************************************************************)
Raise == pc' = "failed"
Ran(step) == trace' = Append(trace, step)
At(sc, at) == script = sc /\ pc = at

\* Module level: MODEL_PATH.mkdir(exist_ok=True).
TM_import ==
    /\ At("train_model", "import")
    /\ dirs' = dirs \cup {MODEL_PATH}
    /\ pc' = "load"
    /\ Ran("import")
    /\ UNCHANGED <<script, packages, output, seed, fs, df, X, feature_names, X_train, X_val,
                   X_test, X_balanced, model, metadata, metrics, initial_type, onnx_model,
                   parity, fitInput, evalInput, compared>>

\* The feature table of train_model: every column but Class.
TM_Features(t) == [i \in DOMAIN t.rows |-> [Time |-> t.rows[i].Time, Amount |-> t.rows[i].Amount]]

TM_load_and_prepare_data ==
    /\ At("train_model", "load")
    /\ Ran("load")
    /\ IF Exists(DATA_PATH)
       THEN /\ df' = fs[DATA_PATH].body
            /\ X' = TM_Features(fs[DATA_PATH].body)
            /\ feature_names' = DropClass(fs[DATA_PATH].body.cols)
            /\ pc' = "split"
       ELSE /\ Raise
            /\ UNCHANGED <<df, X, feature_names>>
    /\ UNCHANGED <<script, packages, output, seed, dirs, fs, X_train, X_val, X_test, X_balanced,
                   model, metadata, metrics, initial_type, onnx_model, parity, fitInput,
                   evalInput, compared>>

\* The two calls of train_test_split: the test rows off the table, then the
\* validation rows off the rest.
TM_Temp(S, s) == train_test_split(S, s, TEST_SIZE_PCT).train
TM_SplitRaises(S, s) ==
    \/ SplitRaises(S, TEST_SIZE_PCT)
    \/ \E T \in {TM_Temp(S, s)} : SplitRaises(T, VAL_SIZE_PCT)
\* A second split that draws the validation rows from the whole table.
TM_Split_ValFromAll(S, s) ==
    [train |-> train_test_split(TM_Temp(S, s), s, VAL_SIZE_PCT).train,
     val |-> train_test_split(S, s, VAL_SIZE_PCT).test,
     test |-> train_test_split(S, s, TEST_SIZE_PCT).test]

TM_Split(S, s) ==
    CHOOSE parts \in
        {[train |-> second.train, val |-> second.test, test |-> first.test]
           : <<first, second>> \in
               {<<a, train_test_split(a.train, s, VAL_SIZE_PCT)>>
                  : a \in {train_test_split(S, s, TEST_SIZE_PCT)}}} : TRUE

TM_split_data ==
    /\ At("train_model", "split")
    /\ Ran("split")
    /\ IF TM_SplitRaises(Rows(df), seed)
       THEN /\ Raise
            /\ UNCHANGED <<X_train, X_val, X_test>>
       ELSE /\ \E parts \in {TM_Split(Rows(df), seed)} :
                  /\ X_train' = parts.train
                  /\ X_val' = parts.val
                  /\ X_test' = parts.test
            /\ pc' = "smote"
    /\ UNCHANGED <<script, packages, output, seed, dirs, fs, df, X, feature_names, X_balanced,
                   model, metadata, metrics, initial_type, onnx_model, parity, fitInput,
                   evalInput, compared>>

TM_apply_smote ==
    /\ At("train_model", "smote")
    /\ Ran("smote")
    /\ IF SmoteRaises(X_train)
       THEN /\ Raise
            /\ UNCHANGED X_balanced
       ELSE /\ X_balanced' = fit_resample(X_train, seed, Len(df.rows))
            /\ pc' = "train"
    /\ UNCHANGED <<script, packages, output, seed, dirs, fs, df, X, feature_names, X_train, X_val,
                   X_test, model, metadata, metrics, initial_type, onnx_model, parity,
                   fitInput, evalInput, compared>>

\* A fit on the balanced partition and the test partition together.
TM_FitArgument_WithTest == X_balanced \cup X_test

\* main passes the balanced partition to train_model, which fits on it.
TM_FitArgument == X_balanced

TM_train_model ==
    /\ At("train_model", "train")
    /\ Ran("train")
    /\ \E thr \in Thresholds(TM_FitArgument) :
          model' = Fitted(Len(feature_names), thr)
    /\ fitInput' = TM_FitArgument
    /\ pc' = "evaluate"
    /\ UNCHANGED <<script, packages, output, seed, dirs, fs, df, X, feature_names, X_train, X_val,
                   X_test, X_balanced, metadata, metrics, initial_type, onnx_model, parity,
                   evalInput, compared>>

\* An evaluation on the balanced training rows, and one on the test
\* partition alone.
TM_EvalArguments_OnTrain == [val |-> X_val, test |-> X_balanced]
TM_EvalArguments_TestOnly == [val |-> {}, test |-> X_test]

\* main passes the validation and the test partition to evaluate_model.
TM_EvalArguments == [val |-> X_val, test |-> X_test]

TM_evaluate_model ==
    /\ At("train_model", "evaluate")
    /\ Ran("evaluate")
    /\ evalInput' = TM_EvalArguments
    /\ IF RocAucRaises(TM_EvalArguments.val) \/ RocAucRaises(TM_EvalArguments.test)
       THEN /\ Raise
            /\ UNCHANGED <<metrics, fs>>
       ELSE /\ metrics' = TM_Metrics(Confusion(model, TM_EvalArguments.test))
            /\ fs' = [fs EXCEPT ![CONFUSION_PNG] = Written("png", <<>>),
                                ![ROC_PNG] = Written("png", <<>>)]
            /\ pc' = "importance"
    /\ UNCHANGED <<script, packages, output, seed, dirs, df, X, feature_names, X_train, X_val,
                   X_test, X_balanced, model, metadata, initial_type, onnx_model, parity,
                   fitInput, compared>>

TM_analyze_feature_importance ==
    /\ At("train_model", "importance")
    /\ Ran("importance")
    /\ fs' = [fs EXCEPT ![IMPORTANCE_PNG] = Written("png", <<>>)]
    /\ pc' = "save"
    /\ UNCHANGED <<script, packages, output, seed, dirs, df, X, feature_names, X_train, X_val,
                   X_test, X_balanced, model, metadata, metrics, initial_type, onnx_model,
                   parity, fitInput, evalInput, compared>>

\* A save that stores metrics other than the ones it was handed.
TM_SaveModel_StaleMetrics(files, m, mt, names) ==
    [files EXCEPT ![MODEL_FILE] = Written("pkl", m),
                  ![METADATA_FILE] = Written("pkl", SavedMetadata(names, NoMetrics)),
                  ![FEATURE_FILE] = Written("txt", names)]

\* save_model(model, metrics, feature_names): the pickles, then the names.
TM_SaveModel(files, m, mt, names) ==
    [files EXCEPT ![MODEL_FILE] = Written("pkl", m),
                  ![METADATA_FILE] = Written("pkl", SavedMetadata(names, mt)),
                  ![FEATURE_FILE] = Written("txt", names)]

TM_save_model ==
    /\ At("train_model", "save")
    /\ Ran("save")
    /\ fs' = TM_SaveModel(fs, model, metrics, feature_names)
    /\ pc' = "done"
    /\ UNCHANGED <<script, packages, output, seed, dirs, df, X, feature_names, X_train, X_val,
                   X_test, X_balanced, model, metadata, metrics, initial_type, onnx_model,
                   parity, fitInput, evalInput, compared>>

(***************************************************************************)
(* train_custom_features.py                                                *)
(***************************************************************************)
\* The draws of numpy's global generator after np.random.seed(RANDOM_STATE):
\* the k-th draw of the stream, as a percentage for random() and as an
\* integer below 1000 for randint(0, 1000).
Random(s, k) == (37 * k + 11 * s + 29) % 100
RandInt(s, k) == (617 * k + 101 * s + 389) % 1000

\* assign_payment(row, prob), prob in hundredths.
assign_payment(row, prob) ==
    IF row.Class = 1
    THEN IF prob < 30 THEN 0
         ELSE IF prob < 50 THEN 1
         ELSE IF prob < 70 THEN 2
         ELSE 3
    ELSE IF prob < 50 THEN 0
         ELSE IF prob < 85 THEN 1
         ELSE IF prob < 95 THEN 2
         ELSE 3

\* Amount is held in cents: Amount / 10000.0 as a fraction.
normalized_amount(row) == <<row.Amount, 100 * 10000>>
\* An hour that is not taken modulo 24.
hour_of_day_NoWrap(row) == row.Time \div 3600
\* ((Time / 3600) % 24).astype(int); Python's % takes the sign of 24.
hour_of_day(row) == (row.Time \div 3600) % 24
\* ((Time / 86400) % 7).astype(int)
day_of_week(row) == (row.Time \div 86400) % 7
\* A weekend that is Sunday alone.
is_weekend_SundayOnly(d) == IF d >= 6 THEN 1 ELSE 0
\* lambda d: 1.0 if d >= 5 else 0.0
is_weekend(d) == IF d >= 5 THEN 1 ELSE 0

\* What the Java service puts in features[2] for the same instant:
\* timestamp.getDayOfWeek().getValue(), Monday = 1 .. Sunday = 7, the data
\* starting on a Monday.
JavaDayOfWeek(time) == ((time \div 86400) % 7) + 1

\* Hashes that, like the payment method, are made to follow the label.
FeatureRow_LabelledHash(t, s, i) ==
    [normalized_amount |-> normalized_amount(t.rows[i]),
     hour_of_day |-> hour_of_day(t.rows[i]),
     day_of_week |-> day_of_week(t.rows[i]),
     is_weekend |-> is_weekend(day_of_week(t.rows[i])),
     payment_method_encoded |-> assign_payment(t.rows[i], Random(s, i - 1)),
     merchant_hash |-> RandInt(s, Len(t.rows) + i - 1 + t.rows[i].Class),
     location_hash |-> RandInt(s, 2 * Len(t.rows) + i - 1)]

\* The seven columns of X for the row at position i (1-based here, 0-based
\* in pandas) of a table of n rows.  payment_probs takes the first n draws
\* of the stream, merchant_hash the next n, location_hash the n after.
FeatureRow(t, s, i) ==
    [normalized_amount |-> normalized_amount(t.rows[i]),
     hour_of_day |-> hour_of_day(t.rows[i]),
     day_of_week |-> day_of_week(t.rows[i]),
     is_weekend |-> is_weekend(day_of_week(t.rows[i])),
     payment_method_encoded |-> assign_payment(t.rows[i], Random(s, i - 1)),
     merchant_hash |-> RandInt(s, Len(t.rows) + i - 1),
     location_hash |-> RandInt(s, 2 * Len(t.rows) + i - 1)]

engineer_features(t, s) == [i \in DOMAIN t.rows |-> FeatureRow(t, s, i)]

\* Columns assigned in another order.
CustomColumns_Swapped == <<"normalized_amount", "day_of_week", "hour_of_day", "is_weekend",
                           "payment_method_encoded", "merchant_hash", "location_hash">>

\* X.columns, in the order the columns are assigned.
CustomColumns == <<"normalized_amount", "hour_of_day", "day_of_week", "is_weekend",
                   "payment_method_encoded", "merchant_hash", "location_hash">>

\* Tables of two rows over a few times of the week and amounts: rows that
\* agree or differ in any of Time, Amount and Class.
TimeSamples == {0, 86399, 5 * 86400, 7 * 86400 + 3600}
AmountSamples == {0, 14962}
SampleRows == [Time : TimeSamples, Amount : AmountSamples, Class : {0, 1}]
SmallTables == {[cols |-> CsvColumns, rows |-> <<a, b>>] : a \in SampleRows, b \in SampleRows}

CF_Outputs == {CUSTOM_ONNX_MODEL_PATH, CUSTOM_MODEL_FILE, CUSTOM_METADATA_FILE,
               JAVA_FEATURE_DOC}

InitCustomFeatures ==
    \E s \in 0..MaxSeed, csv \in Csvs(TrainTables \cup SmallTables),
       present \in {{}, CF_Outputs} :
        Start("train_custom_features", s, csv, present, {})

\* Module level: the banner only.
CF_import ==
    /\ At("train_custom_features", "import")
    /\ pc' = "load"
    /\ Ran("import")
    /\ UNCHANGED <<script, packages, output, seed, dirs, fs, df, X, feature_names, X_train, X_val,
                   X_test, X_balanced, model, metadata, metrics, initial_type, onnx_model,
                   parity, fitInput, evalInput, compared>>

\* A load that goes on with an empty table when the dataset is absent.
CF_read_csv_Lenient ==
    /\ At("train_custom_features", "load")
    /\ Ran("load")
    /\ df' = (IF Exists(DATA_PATH) THEN fs[DATA_PATH].body
              ELSE [cols |-> CsvColumns, rows |-> <<>>])
    /\ pc' = "engineer"
    /\ UNCHANGED <<script, packages, output, seed, dirs, fs, X, feature_names, X_train, X_val,
                   X_test, X_balanced, model, metadata, metrics, initial_type,
                   onnx_model, parity, fitInput, evalInput, compared>>

\* main: df = pd.read_csv(DATA_PATH)
CF_read_csv ==
    /\ At("train_custom_features", "load")
    /\ Ran("load")
    /\ IF Exists(DATA_PATH)
       THEN /\ df' = fs[DATA_PATH].body
            /\ pc' = "engineer"
       ELSE /\ Raise
            /\ UNCHANGED df
    /\ UNCHANGED <<script, packages, output, seed, dirs, fs, X, feature_names, X_train, X_val,
                   X_test, X_balanced, model, metadata, metrics, initial_type, onnx_model,
                   parity, fitInput, evalInput, compared>>

\* main: X, y = engineer_features(df); feature_names = X.columns.tolist()
CF_engineer_features ==
    /\ At("train_custom_features", "engineer")
    /\ Ran("engineer")
    /\ X' = engineer_features(df, seed)
    /\ feature_names' = CustomColumns
    /\ pc' = "split"
    /\ UNCHANGED <<script, packages, output, seed, dirs, fs, df, X_train, X_val, X_test,
                   X_balanced, model, metadata, metrics, initial_type, onnx_model, parity,
                   fitInput, evalInput, compared>>

\* One call of train_test_split: train and test, no validation partition.
CF_Split(S, s) ==
    CHOOSE parts \in {[train |-> a.train, val |-> {}, test |-> a.test]
                        : a \in {train_test_split(S, s, TEST_SIZE_PCT)}} : TRUE

CF_split_data ==
    /\ At("train_custom_features", "split")
    /\ Ran("split")
    /\ IF SplitRaises(Rows(df), TEST_SIZE_PCT)
       THEN /\ Raise
            /\ UNCHANGED <<X_train, X_test>>
       ELSE /\ \E parts \in {CF_Split(Rows(df), seed)} :
                  /\ X_train' = parts.train
                  /\ X_test' = parts.test
            /\ pc' = "smote"
    /\ UNCHANGED <<script, packages, output, seed, dirs, fs, df, X, feature_names, X_val,
                   X_balanced, model, metadata, metrics, initial_type, onnx_model, parity,
                   fitInput, evalInput, compared>>

\* main rebinds X_train, y_train to the balanced partition.
CF_apply_smote ==
    /\ At("train_custom_features", "smote")
    /\ Ran("smote")
    /\ IF SmoteRaises(X_train)
       THEN /\ Raise
            /\ UNCHANGED <<X_train, X_balanced>>
       ELSE /\ \E balanced \in {fit_resample(X_train, seed, Len(df.rows))} :
                  /\ X_balanced' = balanced
                  /\ X_train' = balanced
            /\ pc' = "train"
    /\ UNCHANGED <<script, packages, output, seed, dirs, fs, df, X, feature_names, X_val, X_test,
                   model, metadata, metrics, initial_type, onnx_model, parity, fitInput,
                   evalInput, compared>>

CF_FitArgument == X_train

CF_train_model ==
    /\ At("train_custom_features", "train")
    /\ Ran("train")
    /\ \E thr \in Thresholds(CF_FitArgument) :
          model' = Fitted(Len(feature_names), thr)
    /\ fitInput' = CF_FitArgument
    /\ pc' = "evaluate"
    /\ UNCHANGED <<script, packages, output, seed, dirs, fs, df, X, feature_names, X_train, X_val,
                   X_test, X_balanced, metadata, metrics, initial_type, onnx_model, parity,
                   evalInput, compared>>

\* main passes the test partition to evaluate_model, and nothing else.
CF_EvalArguments == [val |-> {}, test |-> X_test]

CF_evaluate_model ==
    /\ At("train_custom_features", "evaluate")
    /\ Ran("evaluate")
    /\ evalInput' = CF_EvalArguments
    /\ IF RocAucRaises(CF_EvalArguments.test)
       THEN /\ Raise
            /\ UNCHANGED metrics
       ELSE /\ metrics' = CF_Metrics(Confusion(model, CF_EvalArguments.test))
            /\ pc' = "convert"
    /\ UNCHANGED <<script, packages, output, seed, dirs, fs, df, X, feature_names, X_train, X_val,
                   X_test, X_balanced, model, metadata, initial_type, onnx_model, parity,
                   fitInput, compared>>

(***************************************************************************)
(* skl2onnx.convert_sklearn and the parity checks                          *)
(***************************************************************************)
\* The largest difference between the fraud probabilities of the converted
\* graph and of the forest, in millionths.
Drifts == {0, 9, 10, 1000}
TOL_PERFECT == 10
TOL_ACCEPT == 1000
CF_SAMPLE_N == 10

\* A converted graph: the forest it was converted from, the width of its
\* declared input, its drift, and the rows whose label it predicts
\* differently (none when the probabilities agree).
Converted(m, width, drift, flips) ==
    [kind |-> "onnx", of |-> m, width |-> width, drift |-> drift, flips |-> flips]
\* The forms in which the runtime hands out the probabilities of a graph:
\* a dict class -> vector, a list of one dict class -> probability a
\* sample (what ZipMap gives), an array samples x 2, an array of the fraud
\* probabilities.  The form is fixed by the conversion.
Formats == {"dict", "list", "array2", "array1"}
convert_sklearn(m, width) ==
    {[format |-> fmt] @@ c :
        c \in {Converted(m, width, d, f) : d \in Drifts, f \in {{}, {1}}} \
                 {Converted(m, width, 0, {1})},
        fmt \in Formats}

\* The fraud probability of the graph for each row of a sample, in
\* millionths: the forest's, off by the drift.
OnnxProba(om, ids) ==
    [k \in DOMAIN ids |-> IF ids[k] <= om.of.thr THEN 1000000 - om.drift ELSE om.drift]

\* sess.run(...)[1] for a sample.  A dict {0: p0, 1: p1} is the pair
\* <<p0, p1>>, so that the Python index [1] is the index 2 here.
ProbaOutput(om, ids) ==
    IF om.format = "dict"
    THEN [type |-> "dict", ndim |-> 0,
          values |-> <<[k \in DOMAIN ids |-> 1000000 - OnnxProba(om, ids)[k]],
                       OnnxProba(om, ids)>>]
    ELSE IF om.format = "array1"
    THEN [type |-> "ndarray", ndim |-> 1, values |-> OnnxProba(om, ids)]
    ELSE [type |-> IF om.format = "list" THEN "list" ELSE "ndarray",
          ndim |-> IF om.format = "list" THEN 0 ELSE 2,
          values |-> [k \in DOMAIN ids |->
                        <<1000000 - OnnxProba(om, ids)[k], OnnxProba(om, ids)[k]>>]]

\* test_onnx_model, lines 104-117: the vector it compares.
EX_FraudProba(out) ==
    IF out.type \in {"dict", "list"}
    THEN [numeric |-> TRUE, v |-> [k \in DOMAIN out.values |-> out.values[k][2]]]
    ELSE IF out.ndim = 2
    THEN [numeric |-> TRUE, v |-> [k \in DOMAIN out.values |-> out.values[k][2]]]
    ELSE [numeric |-> TRUE, v |-> out.values]

\* export_to_onnx, lines 210-219: the vector it compares.  It has no branch
\* for a list: np.array of a list of dicts is a 1-D array of dicts.
CF_FraudProba(out) ==
    IF out.type = "dict"
    THEN [numeric |-> TRUE, v |-> [k \in DOMAIN out.values |-> out.values[k][2]]]
    ELSE IF out.type = "list"
    THEN [numeric |-> FALSE, v |-> out.values]
    ELSE IF out.ndim = 2
    THEN [numeric |-> TRUE, v |-> [k \in DOMAIN out.values |-> out.values[k][2]]]
    ELSE [numeric |-> TRUE, v |-> out.values]

\* np.abs(sklearn - onnx): a TypeError on elements that are no numbers, a
\* ValueError on lengths that do not broadcast.
SubtractRaises(n, e) == ~e.numeric \/ (Len(e.v) # n /\ Len(e.v) # 1 /\ n # 1)

\* onnx_model.SerializeToString()
SerializeToString(om) == <<"ModelProto", om>>

\* export_to_onnx: max_diff over ten random rows of width 7; the message
\* for a perfect match is the one threshold of the function.
CF_Parity(om) ==
    [kind |-> "checked", pred_match |-> TRUE, max_diff |-> om.drift,
     passed |-> om.drift < TOL_PERFECT]

CF_export_convert ==
    /\ At("train_custom_features", "convert")
    /\ Ran("convert")
    /\ onnx_model' \in convert_sklearn(model, CUSTOM_WIDTH)
    /\ pc' = "validate"
    /\ UNCHANGED <<script, packages, output, seed, dirs, fs, df, X, feature_names, X_train, X_val,
                   X_test, X_balanced, model, metadata, metrics, initial_type,
                   parity, fitInput, evalInput, compared>>

CF_export_test ==
    /\ At("train_custom_features", "validate")
    /\ Ran("validate")
    /\ IF SubtractRaises(CF_SAMPLE_N,
            CF_FraudProba(ProbaOutput(onnx_model, [k \in 1..CF_SAMPLE_N |-> k])))
       THEN /\ Raise
            /\ UNCHANGED <<parity, compared>>
       ELSE /\ compared' = SerializeToString(onnx_model)
            /\ parity' = CF_Parity(onnx_model)
            /\ pc' = "persist_onnx"
    /\ UNCHANGED <<script, packages, output, seed, dirs, fs, df, X, feature_names, X_train, X_val,
                   X_test, X_balanced, model, metadata, metrics, initial_type,
                   onnx_model, fitInput, evalInput>>

\* export_to_onnx writes whatever the comparison found.
CF_WriteOnnx(files, om) ==
    [files EXCEPT ![CUSTOM_ONNX_MODEL_PATH] = Written("onnx", SerializeToString(om))]

CF_export_write ==
    /\ At("train_custom_features", "persist_onnx")
    /\ Ran("persist_onnx")
    /\ dirs' = dirs \cup {CUSTOM_ONNX_DIR}
    /\ fs' = CF_WriteOnnx(fs, onnx_model)
    /\ pc' = "persist"
    /\ UNCHANGED <<script, packages, output, seed, df, X, feature_names, X_train, X_val, X_test,
                   X_balanced, model, metadata, metrics, initial_type,
                   onnx_model, parity, fitInput, evalInput, compared>>

\* The metadata dict and the document of save_metadata.
CF_Metadata(names, mt) ==
    [model_type |-> "RandomForestClassifier",
     n_features |-> CUSTOM_WIDTH,
     feature_names |-> names,
     metrics |-> mt,
     hyperparameters |-> [n_estimators |-> N_ESTIMATORS, max_depth |-> MAX_DEPTH]]
\* The names the fixed Java mapping of the document gives features[0..6].
JavaMapping == <<"normalized_amount", "hour_of_day", "day_of_week", "is_weekend",
                 "payment_method_encoded", "merchant_hash", "location_hash">>
CF_JavaDoc(names, mt) ==
    [shape |-> CUSTOM_WIDTH, order |-> names, java |-> JavaMapping, metrics |-> mt]
CF_SaveMetadata(files, m, mt, names) ==
    [files EXCEPT ![CUSTOM_MODEL_FILE] = Written("pkl", m),
                  ![CUSTOM_METADATA_FILE] = Written("pkl", CF_Metadata(names, mt)),
                  ![JAVA_FEATURE_DOC] = Written("md", CF_JavaDoc(names, mt))]

CF_save_metadata ==
    /\ At("train_custom_features", "persist")
    /\ Ran("persist")
    /\ dirs' = dirs \cup {MODEL_PATH}
    /\ fs' = CF_SaveMetadata(fs, model, metrics, feature_names)
    /\ pc' = "done"
    /\ UNCHANGED <<script, packages, output, seed, df, X, feature_names, X_train, X_val, X_test,
                   X_balanced, model, metadata, metrics, initial_type,
                   onnx_model, parity, fitInput, evalInput, compared>>

(***************************************************************************)
(* export_onnx.py                                                          *)
(***************************************************************************)
ExportTables ==
    {Table(n, 2, step) : n \in (SAMPLE_N - 1)..(SAMPLE_N + ExtraRows), step \in {1, 30000}}
        \cup {[cols |-> NarrowColumns, rows |-> Table(SAMPLE_N, 2, 1).rows]}

EX_Outputs == {ONNX_MODEL_PATH, FEATURE_DOC}

InitExportOnnx ==
    \E s \in 0..MaxSeed, csv \in Csvs(ExportTables),
       pickles \in SUBSET {MODEL_FILE, METADATA_FILE},
       present \in {{}, EX_Outputs} :
        Start("export_onnx", s, csv, pickles \cup present, {})

\* Module level: the banner only.
EX_import ==
    /\ At("export_onnx", "import")
    /\ pc' = "load"
    /\ Ran("import")
    /\ UNCHANGED <<script, packages, output, seed, dirs, fs, df, X, feature_names, X_train,
                   X_val, X_test, X_balanced, model, metadata, metrics,
                   initial_type, onnx_model, parity, fitInput, evalInput,
                   compared>>

\* metadata[k] for a key in `keys' and metadata['metrics'][k] for a key in
\* `mkeys': a KeyError when the dict has no such key.
EX_KeyError(md, keys, mkeys) ==
    \/ ~(keys \subseteq DOMAIN md)
    \/ mkeys # {} /\ ~(mkeys \subseteq DOMAIN md.metrics)

\* open() raises on the first pickle that is absent; the report reads
\* n_estimators, n_features and metrics.roc_auc.
EX_load_trained_model ==
    /\ At("export_onnx", "load")
    /\ Ran("load")
    /\ IF /\ Exists(MODEL_FILE) /\ Exists(METADATA_FILE)
          /\ ~EX_KeyError(fs[METADATA_FILE].body,
                          {"n_estimators", "n_features", "metrics"}, {"roc_auc"})
       THEN /\ model' = fs[MODEL_FILE].body
            /\ metadata' = fs[METADATA_FILE].body
            /\ pc' = "schema"
       ELSE /\ Raise
            /\ UNCHANGED <<model, metadata>>
    /\ UNCHANGED <<script, packages, output, seed, dirs, fs, df, X, feature_names, X_train,
                   X_val, X_test, X_balanced, metrics, initial_type,
                   onnx_model, parity, fitInput, evalInput, compared>>

\* main: initial_type = define_input_schema(metadata['n_features'])
EX_define_input_schema ==
    /\ At("export_onnx", "schema")
    /\ Ran("schema")
    /\ IF EX_KeyError(metadata, {"n_features"}, {})
       THEN /\ Raise
            /\ UNCHANGED initial_type
       ELSE /\ initial_type' = metadata.n_features
            /\ pc' = "convert"
    /\ UNCHANGED <<script, packages, output, seed, dirs, fs, df, X, feature_names, X_train,
                   X_val, X_test, X_balanced, model, metadata, metrics,
                   onnx_model, parity, fitInput, evalInput, compared>>

EX_convert_to_onnx ==
    /\ At("export_onnx", "convert")
    /\ Ran("convert")
    /\ onnx_model' \in convert_sklearn(model, initial_type)
    /\ pc' = "validate"
    /\ UNCHANGED <<script, packages, output, seed, dirs, fs, df, X, feature_names, X_train,
                   X_val, X_test, X_balanced, model, metadata, metrics,
                   initial_type, parity, fitInput, evalInput, compared>>

\* X.sample(n=100, random_state=42): positions of the table drawn by the
\* generator, as index labels.
Sample(t, s) == {((s + k) % Len(t.rows)) + 1 : k \in 0..(SAMPLE_N - 1)}

\* What test_onnx_model raises on: no dataset, fewer rows than the sample,
\* a sampled Time that is no index label of y (labels run from 0), a table
\* of another width than the forest or the graph takes, probabilities
\* whose extracted vector cannot be subtracted from the forest's.
EX_TestRaises(t, s, m, om) ==
    \/ Len(t.rows) < SAMPLE_N
    \/ \E i \in Sample(t, s) : t.rows[i].Time \notin 0..(Len(t.rows) - 1)
    \/ Len(DropClass(t.cols)) # m.n_features
    \/ Len(DropClass(t.cols)) # om.width
    \/ SubtractRaises(SAMPLE_N,
          EX_FraudProba(ProbaOutput(om, [k \in 1..SAMPLE_N |-> ((s + k - 1) % Len(t.rows)) + 1])))

\* np.array_equal(sklearn_pred, onnx_pred) and the largest difference of
\* the fraud probabilities on the sample.
EX_PredMatch(t, s, om) == om.flips \cap Sample(t, s) = {}
EX_ProbaDiff(om) == om.drift

\* The return value of test_onnx_model.
test_onnx_model(pred_match, proba_diff) ==
    IF pred_match /\ proba_diff < TOL_PERFECT THEN TRUE
    ELSE IF proba_diff < TOL_ACCEPT THEN TRUE
    ELSE FALSE

EX_Parity(t, s, om) ==
    [kind |-> "checked", pred_match |-> EX_PredMatch(t, s, om),
     max_diff |-> EX_ProbaDiff(om),
     passed |-> test_onnx_model(EX_PredMatch(t, s, om), EX_ProbaDiff(om))]

EX_test_onnx_model ==
    /\ At("export_onnx", "validate")
    /\ Ran("validate")
    /\ IF ~Exists(DATA_PATH)
       THEN /\ Raise
            /\ UNCHANGED <<df, parity, compared>>
       ELSE /\ df' = fs[DATA_PATH].body
            /\ IF EX_TestRaises(fs[DATA_PATH].body, seed, model, onnx_model)
               THEN /\ Raise
                    /\ UNCHANGED <<parity, compared>>
               ELSE /\ compared' = SerializeToString(onnx_model)
                    /\ parity' = EX_Parity(fs[DATA_PATH].body, seed, onnx_model)
                    /\ pc' = "persist_onnx"
    /\ UNCHANGED <<script, packages, output, seed, dirs, fs, X, feature_names, X_train, X_val,
                   X_test, X_balanced, model, metadata, metrics,
                   initial_type, onnx_model, fitInput, evalInput>>

\* A save that converts the forest afresh instead of writing the graph it
\* was given.
EX_WriteOnnx_Reconverted(files, om) ==
    [files EXCEPT ![ONNX_MODEL_PATH] =
        Written("onnx", SerializeToString(Converted(om.of, om.width, 0, {})))]

EX_WriteOnnx(files, om) ==
    [files EXCEPT ![ONNX_MODEL_PATH] = Written("onnx", SerializeToString(om))]

\* main goes on to save_onnx_model whatever test_onnx_model returned: a
\* False only prints a warning.
EX_save_onnx_model ==
    /\ At("export_onnx", "persist_onnx")
    /\ Ran("persist_onnx")
    /\ fs' = EX_WriteOnnx(fs, onnx_model)
    /\ pc' = "document"
    /\ UNCHANGED <<script, packages, output, seed, dirs, df, X, feature_names, X_train, X_val,
                   X_test, X_balanced, model, metadata, metrics,
                   initial_type, onnx_model, parity, fitInput, evalInput,
                   compared>>

\* A document that lists the columns of creditcard.csv, whatever the
\* metadata holds.
EX_FeatureDoc_FixedList(md) ==
    [shape |-> md.n_features, order |-> DropClass(CsvColumns), stated |-> 30,
     metrics |-> md.metrics]

\* FEATURE_ORDER.md: the declared width, the feature list, the width of the
\* fixed text, the metrics.
EX_FeatureDoc(md) ==
    [shape |-> md.n_features, order |-> md.features, stated |-> 30,
     metrics |-> md.metrics]

\* The file is opened for writing before the first key is read.
EX_document_feature_order ==
    /\ At("export_onnx", "document")
    /\ Ran("document")
    /\ IF EX_KeyError(metadata, {"n_features", "features", "metrics"},
                      {"precision", "recall", "f1", "roc_auc"})
       THEN /\ fs' = [fs EXCEPT ![FEATURE_DOC] = Written("md", <<>>)]
            /\ Raise
       ELSE /\ fs' = [fs EXCEPT ![FEATURE_DOC] = Written("md", EX_FeatureDoc(metadata))]
            /\ pc' = "summary"
    /\ UNCHANGED <<script, packages, output, seed, dirs, df, X, feature_names, X_train, X_val,
                   X_test, X_balanced, model, metadata, metrics,
                   initial_type, onnx_model, parity, fitInput, evalInput,
                   compared>>

EX_display_summary ==
    /\ At("export_onnx", "summary")
    /\ Ran("summary")
    /\ IF EX_KeyError(metadata, {"n_features"}, {}) THEN Raise ELSE pc' = "done"
    /\ UNCHANGED <<script, packages, output, seed, dirs, fs, df, X, feature_names, X_train,
                   X_val, X_test, X_balanced, model, metadata, metrics,
                   initial_type, onnx_model, parity, fitInput, evalInput,
                   compared>>

(***************************************************************************)
(* explore_data.py                                                         *)
(***************************************************************************)
None == [kind |-> "None"]

ExploreTables == {Table(3, f, 30000) : f \in 0..3}

InitExploreData ==
    \E s \in 0..MaxSeed, csv \in Csvs(ExploreTables), present \in {{}, Figures},
       extra \in SUBSET {"data", FIGURES_PATH} :
        Start("explore_data", s, csv, present, extra)

\* Module level: FIGURES_PATH.mkdir(exist_ok=True), without parents: it
\* raises FileNotFoundError when data/ does not exist.
ED_import ==
    /\ At("explore_data", "import")
    /\ Ran("import")
    /\ IF "data" \in dirs
       THEN /\ dirs' = dirs \cup {FIGURES_PATH}
            /\ pc' = "load"
       ELSE /\ Raise
            /\ UNCHANGED dirs
    /\ UNCHANGED <<script, packages, output, seed, fs, df, X, feature_names, X_train, X_val,
                   X_test, X_balanced, model, metadata, metrics,
                   initial_type, onnx_model, parity, fitInput, evalInput,
                   compared>>

\* df = load_data(); if df is None: return
ED_load_data ==
    /\ At("explore_data", "load")
    /\ Ran("load")
    /\ IF Exists(DATA_PATH)
       THEN /\ df' = fs[DATA_PATH].body
            /\ pc' = "basic_info"
       ELSE /\ df' = None
            /\ pc' = "done"
    /\ UNCHANGED <<script, packages, output, seed, dirs, fs, X, feature_names, X_train, X_val,
                   X_test, X_balanced, model, metadata, metrics,
                   initial_type, onnx_model, parity, fitInput, evalInput,
                   compared>>

ED_basic_info ==
    /\ At("explore_data", "basic_info")
    /\ Ran("basic_info")
    /\ pc' = "class_distribution"
    /\ UNCHANGED <<script, packages, output, seed, dirs, fs, df, X, feature_names, X_train,
                   X_val, X_test, X_balanced, model, metadata, metrics,
                   initial_type, onnx_model, parity, fitInput, evalInput,
                   compared>>

\* class_counts[0] / class_counts[1]: a KeyError when a class has no row.
ED_class_distribution ==
    /\ At("explore_data", "class_distribution")
    /\ Ran("class_distribution")
    /\ IF Classes(Rows(df)) = {0, 1}
       THEN /\ fs' = [fs EXCEPT !["data/figures/class_distribution.png"] = Written("png", <<>>)]
            /\ pc' = "time_analysis"
       ELSE /\ Raise
            /\ UNCHANGED fs
    /\ UNCHANGED <<script, packages, output, seed, dirs, df, X, feature_names, X_train, X_val,
                   X_test, X_balanced, model, metadata, metrics,
                   initial_type, onnx_model, parity, fitInput, evalInput,
                   compared>>

ED_time_analysis ==
    /\ At("explore_data", "time_analysis")
    /\ Ran("time_analysis")
    /\ fs' = [fs EXCEPT !["data/figures/time_analysis.png"] = Written("png", <<>>)]
    /\ pc' = "amount_analysis"
    /\ UNCHANGED <<script, packages, output, seed, dirs, df, X, feature_names, X_train, X_val,
                   X_test, X_balanced, model, metadata, metrics,
                   initial_type, onnx_model, parity, fitInput, evalInput,
                   compared>>

ED_amount_analysis ==
    /\ At("explore_data", "amount_analysis")
    /\ Ran("amount_analysis")
    /\ fs' = [fs EXCEPT !["data/figures/amount_analysis.png"] = Written("png", <<>>)]
    /\ pc' = "feature_correlation"
    /\ UNCHANGED <<script, packages, output, seed, dirs, df, X, feature_names, X_train, X_val,
                   X_test, X_balanced, model, metadata, metrics,
                   initial_type, onnx_model, parity, fitInput, evalInput,
                   compared>>

ED_feature_correlation ==
    /\ At("explore_data", "feature_correlation")
    /\ Ran("feature_correlation")
    /\ fs' = [fs EXCEPT !["data/figures/feature_correlation.png"] = Written("png", <<>>)]
    /\ pc' = "summary_insights"
    /\ UNCHANGED <<script, packages, output, seed, dirs, df, X, feature_names, X_train, X_val,
                   X_test, X_balanced, model, metadata, metrics,
                   initial_type, onnx_model, parity, fitInput, evalInput,
                   compared>>

ED_summary_insights ==
    /\ At("explore_data", "summary_insights")
    /\ Ran("summary_insights")
    /\ pc' = "done"
    /\ UNCHANGED <<script, packages, output, seed, dirs, fs, df, X, feature_names, X_train,
                   X_val, X_test, X_balanced, model, metadata, metrics,
                   initial_type, onnx_model, parity, fitInput, evalInput,
                   compared>>

(***************************************************************************)
(* verify_setup.py                                                         *)
(***************************************************************************)
\* The libraries verify_imports imports, in the order of its try blocks.
Imports == <<"pandas", "sklearn", "imblearn", "onnx", "skl2onnx", "onnxruntime",
             "matplotlib", "seaborn">>

\* What test_basic_functionality imports besides numpy, which pandas has
\* loaded already.
TestImport == "sklearn.ensemble"

Libraries == {Imports[k] : k \in 1..Len(Imports)} \cup {TestImport}

\* An import succeeds, raises ImportError, or raises something else (a
\* broken binary, a missing __version__).
Outcomes == {"ok", "missing", "broken"}

\* One line of the report.
Line(mark, of) == [mark |-> mark, of |-> of]

InitVerifySetup ==
    /\ Start("verify_setup", 0, Absent, {}, {})
    /\ packages \in [Libraries -> Outcomes]

\* Module level defines the two functions; __main__ prints the banner and
\* calls verify_imports.
VS_import ==
    /\ At("verify_setup", "import")
    /\ Ran("import")
    /\ pc' = Imports[1]
    /\ UNCHANGED <<script, packages, output, seed, dirs, fs, df, X, feature_names,
                   X_train, X_val, X_test, X_balanced, model, metadata,
                   metrics, initial_type, onnx_model, parity, fitInput,
                   evalInput, compared>>

VS_verify_imports_KeepsGoing ==
    \E k \in 1..Len(Imports) :
        /\ At("verify_setup", Imports[k])
        /\ Ran(Imports[k])
        /\ CASE packages[Imports[k]] = "ok" ->
                  /\ output' = Append(output, Line("ok", Imports[k]))
                  /\ pc' = IF k < Len(Imports) THEN Imports[k + 1]
                                               ELSE "returned_True"
             [] packages[Imports[k]] = "missing" ->
                  /\ output' = Append(output, Line("failed", Imports[k]))
                  /\ pc' = IF k < Len(Imports) THEN Imports[k + 1]
                                               ELSE "returned_False"
             [] OTHER ->
                  /\ Raise
                  /\ UNCHANGED output
        /\ UNCHANGED <<script, packages, seed, dirs, fs, df, X, feature_names,
                       X_train, X_val, X_test, X_balanced, model, metadata,
                       metrics, initial_type, onnx_model, parity, fitInput,
                       evalInput, compared>>

\* One try block of verify_imports: the import and the version line, the
\* next block on success, return False on ImportError; any other exception
\* is not caught.  After the last block, return True.
VS_verify_imports ==
    \E k \in 1..Len(Imports) :
        /\ At("verify_setup", Imports[k])
        /\ Ran(Imports[k])
        /\ CASE packages[Imports[k]] = "ok" ->
                  /\ output' = Append(output, Line("ok", Imports[k]))
                  /\ pc' = IF k < Len(Imports) THEN Imports[k + 1]
                                               ELSE "returned_True"
             [] packages[Imports[k]] = "missing" ->
                  /\ output' = Append(output, Line("failed", Imports[k]))
                  /\ pc' = "returned_False"
             [] OTHER ->
                  /\ Raise
                  /\ UNCHANGED output
        /\ UNCHANGED <<script, packages, seed, dirs, fs, df, X, feature_names,
                       X_train, X_val, X_test, X_balanced, model, metadata,
                       metrics, initial_type, onnx_model, parity, fitInput,
                       evalInput, compared>>

\* __main__ calls test_basic_functionality in the branch verify_imports()
\* opened.  Its imports are not in a try block; it returns True or raises.
VS_test_basic_functionality ==
    /\ At("verify_setup", "returned_True")
    /\ Ran("test_basic_functionality")
    /\ IF packages[TestImport] = "ok"
       THEN /\ output' = Append(output, Line("ok", "test_basic_functionality"))
            /\ pc' = "tested_True"
       ELSE /\ Raise
            /\ UNCHANGED output
    /\ UNCHANGED <<script, packages, seed, dirs, fs, df, X, feature_names,
                   X_train, X_val, X_test, X_balanced, model, metadata,
                   metrics, initial_type, onnx_model, parity, fitInput,
                   evalInput, compared>>

\* The three messages of __main__.
VS_report ==
    /\ script = "verify_setup"
    /\ pc \in {"returned_False", "tested_True", "tested_False"}
    /\ Ran("report")
    /\ output' = Append(output,
          CASE pc = "tested_True" -> Line("SUCCESS", "environment")
            [] pc = "tested_False" -> Line("failed", "test_basic_functionality")
            [] OTHER -> Line("failed", "verify_imports"))
    /\ pc' = "done"
    /\ UNCHANGED <<script, packages, seed, dirs, fs, df, X, feature_names,
                   X_train, X_val, X_test, X_balanced, model, metadata,
                   metrics, initial_type, onnx_model, parity, fitInput,
                   evalInput, compared>>

\* The scripts above import their libraries at module level without a
\* check: their runs are those of a complete installation.
Installed == [l \in Libraries |-> "ok"]

Init ==
    \/ /\ InitTrainModel \/ InitCustomFeatures \/ InitExportOnnx \/ InitExploreData
       /\ packages = Installed
    \/ InitVerifySetup

Next ==
    \/ TM_import
    \/ TM_load_and_prepare_data
    \/ TM_split_data
    \/ TM_apply_smote
    \/ TM_train_model
    \/ TM_evaluate_model
    \/ TM_analyze_feature_importance
    \/ TM_save_model
    \/ CF_import
    \/ CF_read_csv
    \/ CF_engineer_features
    \/ CF_split_data
    \/ CF_apply_smote
    \/ CF_train_model
    \/ CF_evaluate_model
    \/ CF_export_convert
    \/ CF_export_test
    \/ CF_export_write
    \/ CF_save_metadata
    \/ EX_import
    \/ EX_load_trained_model
    \/ EX_define_input_schema
    \/ EX_convert_to_onnx
    \/ EX_test_onnx_model
    \/ EX_save_onnx_model
    \/ EX_document_feature_order
    \/ EX_display_summary
    \/ ED_import
    \/ ED_load_data
    \/ ED_basic_info
    \/ ED_class_distribution
    \/ ED_time_analysis
    \/ ED_amount_analysis
    \/ ED_feature_correlation
    \/ ED_summary_insights
    \/ VS_import
    \/ VS_verify_imports
    \/ VS_test_basic_functionality
    \/ VS_report

Spec == Init /\ [][Next]_vars
(***************************************************************************)
(* Properties.                                                             *)
(***************************************************************************)
InTrace(step) == \E i \in 1..Len(trace) : trace[i] = step
Before(a, b) ==
    \E i \in 1..Len(trace), j \in 1..Len(trace) :
        i < j /\ trace[i] = a /\ trace[j] = b
Training == {"train_model", "train_custom_features"}
OnnxFiles == {ONNX_MODEL_PATH, CUSTOM_ONNX_MODEL_PATH}
WrittenNow(f) == fs[f].run = "this"

\* C1: an ONNX file is written by a run only if the parity check of that
\* run passed (test_onnx_model returned True, respectively max_diff was
\* within the tolerance of export_to_onnx).
C1_WrittenOnlyIfParityPassed ==
    \A f \in OnnxFiles :
        WrittenNow(f) => parity.kind = "checked" /\ parity.passed

\* C2: whenever a run has written an ONNX file, the conversion and then the
\* parity check ran before the write, and the bytes in the file are the
\* bytes of the converted model the parity check ran.
C2_WrittenModelWasCompared ==
    \A f \in OnnxFiles :
        WrittenNow(f) =>
            /\ Before("convert", "validate")
            /\ Before("validate", "persist_onnx")
            /\ parity.kind = "checked"
            /\ fs[f].body = compared
            /\ compared = SerializeToString(onnx_model)
            /\ onnx_model.of = model

\* C2, its case: export_onnx has written a graph that differs from the
\* forest.
C2_Witness ==
    /\ script = "export_onnx"
    /\ WrittenNow(ONNX_MODEL_PATH)
    /\ onnx_model.drift > 0
\* The partitions split_data returns for the table of the run.
SplitOf ==
    IF script = "train_model" THEN TM_Split(Rows(df), seed) ELSE CF_Split(Rows(df), seed)
HeldOut == evalInput.val \cup evalInput.test
Abs(x) == IF x < 0 THEN -x ELSE x
\* The frauds of P are its proportional share of the frauds of S, to a row.
KeepsRatio(P, S) ==
    Abs(Count(P, 1) * Cardinality(S) - Count(S, 1) * Cardinality(P)) <= Cardinality(S)

\* C3: in both training pipelines SMOTE runs after the split and on the
\* training partition only: the partitions handed to evaluate_model are
\* the validation and test rows of the split, rows of the table with their
\* own labels, none synthetic, in the class ratio the split gave them.
C3_HeldOutUntouchedBySmote ==
    script \in Training /\ InTrace("evaluate") =>
        \A parts \in {SplitOf} :
        /\ Before("split", "smote")
        /\ X_balanced = fit_resample(parts.train, seed, Len(df.rows))
        /\ evalInput.val = parts.val
        /\ evalInput.test = parts.test
        /\ \A r \in HeldOut :
              r.src = {} /\ r.id \in DOMAIN df.rows /\ r.y = df.rows[r.id].Class
        /\ KeepsRatio(evalInput.test, Rows(df))
        /\ KeepsRatio(evalInput.val, parts.train \cup parts.val)

\* C3, its case: train_model has evaluated after SMOTE added synthetic rows.
C3_Witness ==
    /\ script = "train_model"
    /\ InTrace("evaluate")
    /\ metrics # NoMetrics
    /\ \E r \in X_balanced : r.src # {}

\* C4: the classifier is fitted on the balanced training partition only and
\* evaluated on held-out rows only: no row of the validation or test
\* partition is in the fit, as itself or as a source of a synthetic row.
C4_NoHeldOutRowInFit ==
    script \in Training /\ InTrace("train") =>
        /\ fitInput = X_balanced
        /\ Count(fitInput, 0) = Count(fitInput, 1)
        /\ \A r \in fitInput :
              /\ r.id \notin Ids(X_val \cup X_test)
              /\ r.src \cap Ids(X_val \cup X_test) = {}
        /\ \A r \in HeldOut :
              /\ r \in X_val \cup X_test
              /\ r.id \notin Ids(fitInput)
              /\ \A q \in fitInput : r.id \notin q.src

\* C4, its case: train_custom_features has fitted on a partition holding
\* synthetic rows and evaluated.
C4_Witness ==
    /\ script = "train_custom_features"
    /\ InTrace("evaluate")
    /\ \E r \in fitInput : r.src # {}

\* C5: when split_data has returned, train_model's train, validation and
\* test sets are pairwise disjoint and cover the table, the test set being
\* 20% of the rows and the validation set 20% of the others (rounded up to
\* a whole row); train_custom_features's train and test sets are disjoint
\* and cover the table.
C5_SplitPartitionsRows ==
    pc = "smote" =>
        /\ X_train \cap X_test = {}
        /\ X_train \cap X_val = {}
        /\ X_val \cap X_test = {}
        /\ X_train \cup X_val \cup X_test = Rows(df)
        /\ 100 * Cardinality(X_test) >= TEST_SIZE_PCT * Len(df.rows)
        /\ 100 * (Cardinality(X_test) - 1) < TEST_SIZE_PCT * Len(df.rows)
        /\ script = "train_model" =>
              /\ 100 * Cardinality(X_val)
                    >= VAL_SIZE_PCT * (Len(df.rows) - Cardinality(X_test))
              /\ 100 * (Cardinality(X_val) - 1)
                    < VAL_SIZE_PCT * (Len(df.rows) - Cardinality(X_test))
        /\ script = "train_custom_features" => X_val = {}

\* C5, its case: train_model has split a table whose size is no multiple
\* of five into three partitions.
C5_Witness ==
    /\ script = "train_model"
    /\ pc = "smote"
    /\ Len(df.rows) % 5 # 0
    /\ Cardinality(X_val) >= 2

\* C6: every training pipeline splits the rows into train, validation and
\* test, and evaluates the model on both the validation and the test rows.
C6_BothPipelinesThreePartitions ==
    script \in Training /\ InTrace("evaluate") =>
        /\ X_val # {}
        /\ X_test # {}
        /\ evalInput.val = X_val
        /\ evalInput.test = X_test

\* C6, amended: train_model splits the rows into train, validation and test
\* and evaluates on both held-out partitions; train_custom_features splits
\* them into train and test only and evaluates on the test partition.
C6_ThreePartitionsInTrainModelOnly ==
    script \in Training /\ InTrace("evaluate") =>
        /\ X_test # {}
        /\ evalInput.test = X_test
        /\ evalInput.val = X_val
        /\ script = "train_model" => X_val # {}
        /\ script = "train_custom_features" => X_val = {}

\* C6, its case: both kinds of run reach it; this is train_custom_features
\* having evaluated on its test partition.
C6_Witness ==
    /\ script = "train_custom_features"
    /\ InTrace("evaluate")
    /\ metrics # NoMetrics
    /\ evalInput.test # {}
SameRaw(a, b) == a.Time = b.Time /\ a.Amount = b.Amount
\* engineer_features has just returned.
Engineered == script = "train_custom_features" /\ pc = "split"
\* The table with every label turned into the other one.
Relabelled(t) ==
    [cols |-> t.cols,
     rows |-> [i \in DOMAIN t.rows |->
                 [Time |-> t.rows[i].Time, Amount |-> t.rows[i].Amount,
                  Class |-> 1 - t.rows[i].Class]]]
TimeAmountFeatures(x) ==
    <<x.normalized_amount, x.hour_of_day, x.day_of_week, x.is_weekend>>
Hashes(x) == <<x.merchant_hash, x.location_hash>>

Analyses == {"basic_info", "class_distribution", "time_analysis", "amount_analysis",
             "feature_correlation", "summary_insights"}

\* C8: whenever data/creditcard.csv is absent, a run of explore_data ends
\* with load_data having returned None and main having returned normally,
\* no analysis having run and no figure having been written.
C8_MissingDatasetEndsNormally ==
    script = "explore_data" /\ ~Exists(DATA_PATH) /\ pc \in {"done", "failed"} =>
        /\ pc = "done"
        /\ df = None
        /\ \A a \in Analyses : ~InTrace(a)
        /\ \A f \in Figures : ~WrittenNow(f)

MissingInput ==
    \/ script \in Training /\ ~Exists(DATA_PATH)
    \/ script = "export_onnx" /\ (~Exists(MODEL_FILE) \/ ~Exists(METADATA_FILE))

\* C9: when a required input file is absent (the dataset for the training
\* scripts, either pickle for export_onnx) the run fails at its load step,
\* no later step runs, and no model artifact is created or overwritten.
C9_MissingInputFailsAtLoad ==
    MissingInput =>
        /\ trace \in {<<>>, <<"import">>, <<"import", "load">>}
        /\ InTrace("load") => pc = "failed"
        /\ \A f \in ModelArtifacts :
              ~WrittenNow(f) /\ fs[f] \in {Absent, PriorContent(f)}

\* C9, its case: export_onnx has failed on a missing metadata pickle, the
\* forest's pickle and an earlier ONNX file being there.
C9_Witness ==
    /\ script = "export_onnx"
    /\ pc = "failed"
    /\ Exists(MODEL_FILE)
    /\ ~Exists(METADATA_FILE)
    /\ fs[ONNX_MODEL_PATH] = PriorContent(ONNX_MODEL_PATH)

\* The place of a step in train, evaluate, convert, validate, persist.
Stage(step) ==
    CASE step = "train" -> 1
      [] step = "evaluate" -> 2
      [] step = "convert" -> 3
      [] step = "validate" -> 4
      [] step \in {"persist_onnx", "persist", "save"} -> 5
      [] OTHER -> 0

\* C10: every step of a run runs at most once, and train, evaluate,
\* convert, validate and persist run in that order; train_model has
\* written its pickles only after evaluate_model returned, the metadata
\* holding the metrics it returned; train_custom_features has written none
\* of its model artifacts before evaluate_model returned.
C10_LinearPipeline ==
    /\ \A i \in 1..Len(trace), j \in 1..Len(trace) :
          i < j =>
              /\ trace[i] # trace[j]
              /\ Stage(trace[i]) > 0 /\ Stage(trace[j]) > 0
                    => Stage(trace[i]) <= Stage(trace[j])
    /\ script = "train_model" /\ (WrittenNow(MODEL_FILE) \/ WrittenNow(METADATA_FILE)) =>
          /\ Before("evaluate", "save")
          /\ metrics = TM_Metrics(Confusion(model, evalInput.test))
          /\ fs[METADATA_FILE].body.metrics = metrics
          /\ fs[MODEL_FILE].body = model
    /\ script = "train_custom_features" /\ (\E f \in CF_Outputs : WrittenNow(f)) =>
          /\ Before("evaluate", "convert")
          /\ Before("validate", "persist_onnx")
          /\ metrics = CF_Metrics(Confusion(model, evalInput.test))

\* C10, its case: train_model has run to its end and saved its pickles.
C10_Witness ==
    /\ script = "train_model"
    /\ pc = "done"
    /\ WrittenNow(MODEL_FILE)
    /\ WrittenNow(METADATA_FILE)

\* C11: test_onnx_model returns True only when the graph predicts the same
\* label as the forest on every sampled row and the largest difference of
\* the fraud probabilities is below 1e-3; when a label differs it returns
\* False.
C11_TrueOnlyIfLabelsMatch ==
    script = "export_onnx" /\ parity.kind = "checked" =>
        /\ parity.passed => parity.pred_match /\ parity.max_diff < TOL_ACCEPT
        /\ ~parity.pred_match => ~parity.passed

SevenFeatures == <<"normalized_amount", "hour_of_day", "day_of_week", "is_weekend",
                   "payment_method_encoded", "merchant_hash", "location_hash">>
CustomDoc == fs[JAVA_FEATURE_DOC].body

\* C12: in train_custom_features the columns of X are the seven features in
\* the stated order, the width declared to the converter and the width the
\* forest was fitted on equal their number, and JAVA_FEATURE_ORDER.md lists
\* them at their indices in that order, as does its Java mapping.
C12_FeatureContractConsistent ==
    script = "train_custom_features" /\ WrittenNow(JAVA_FEATURE_DOC) =>
        /\ feature_names = SevenFeatures
        /\ \A i \in DOMAIN X : DOMAIN X[i] = {feature_names[k] : k \in 1..Len(feature_names)}
        /\ onnx_model.width = Len(feature_names)
        /\ model.n_features = Len(feature_names)
        /\ fs[CUSTOM_METADATA_FILE].body.n_features = Len(feature_names)
        /\ fs[CUSTOM_METADATA_FILE].body.feature_names = feature_names
        /\ CustomDoc.shape = Len(feature_names)
        /\ CustomDoc.order = feature_names
        /\ CustomDoc.java = feature_names

\* C12, its case: train_custom_features has written its document.
C12_Witness ==
    /\ script = "train_custom_features"
    /\ pc = "done"
    /\ WrittenNow(JAVA_FEATURE_DOC)
    /\ WrittenNow(CUSTOM_ONNX_MODEL_PATH)

\* C13: for every row, day_of_week is the value the Java service computes
\* for the same day, getDayOfWeek().getValue() with Monday = 1.
C13_DayOfWeekAsJava ==
    Engineered =>
        \A i \in DOMAIN df.rows : X[i].day_of_week = JavaDayOfWeek(df.rows[i].Time)

C15_WeekendIffSaturdayOrSunday ==
    Engineered =>
        /\ \A i \in DOMAIN df.rows :
              /\ X[i].is_weekend \in {0, 1}
              /\ X[i].is_weekend = 1 <=> X[i].day_of_week \in {5, 6}
        /\ \A i \in DOMAIN df.rows, j \in DOMAIN df.rows :
              X[i].day_of_week = X[j].day_of_week => X[i].is_weekend = X[j].is_weekend

\* C15, its case: a table with a Friday, a Saturday and a Sunday row.
C15_Witness ==
    /\ Engineered
    /\ \E i \in DOMAIN df.rows : X[i].day_of_week = 4
    /\ \E i \in DOMAIN df.rows : X[i].day_of_week = 5
    /\ \E i \in DOMAIN df.rows : X[i].day_of_week = 6

\* apply_smote has just returned.
Smoted == script \in Training /\ pc = "train"

\* C16: after apply_smote the balanced set has as many legitimate as
\* fraudulent rows, every training row of the split is in it, the number
\* of legitimate rows is unchanged and every row added is a fraud.
C16_OnlyFraudRowsAdded ==
    Smoted =>
        \A parts \in {SplitOf} :
            /\ Count(X_balanced, 0) = Count(X_balanced, 1)
            /\ parts.train \subseteq X_balanced
            /\ Count(X_balanced, 0) = Count(parts.train, 0)
            /\ \A r \in X_balanced \ parts.train : r.y = 1

\* C16, amended: after apply_smote the balanced set has as many legitimate
\* as fraudulent rows and every training row of the split is in it; the
\* rows added are synthetic rows of the minority class of the training
\* partition, interpolated between training rows of that class, and the
\* number of rows of the majority class is unchanged.  The rows added are
\* frauds when frauds are the minority.
C16_OnlyMinorityRowsAdded ==
    Smoted =>
        \A parts \in {SplitOf} :
            /\ Count(X_balanced, 0) = Count(X_balanced, 1)
            /\ parts.train \subseteq X_balanced
            /\ Count(X_balanced, Majority(parts.train))
                  = Count(parts.train, Majority(parts.train))
            /\ \A r \in X_balanced \ parts.train :
                  /\ r.y = Minority(parts.train)
                  /\ r.src # {}
                  /\ r.src \subseteq Ids(Class(parts.train, Minority(parts.train)))
            /\ Count(parts.train, 1) <= Count(parts.train, 0) =>
                  /\ Count(X_balanced, 0) = Count(parts.train, 0)
                  /\ \A r \in X_balanced \ parts.train : r.y = 1

\* C16, its case: SMOTE has added synthetic frauds to a training partition
\* where frauds are the minority.
C16_Witness ==
    /\ Smoted
    /\ Count(X_balanced, 1) > Count(SplitOf.train, 1)
    /\ \E r \in X_balanced : r.src # {} /\ r.y = 1

Exporting == script = "export_onnx"
ExportDoc == fs[FEATURE_DOC].body

C18_NoMissingMetadataKey ==
    Exporting /\ Exists(MODEL_FILE) /\ Exists(METADATA_FILE) =>
        /\ ~EX_KeyError(fs[METADATA_FILE].body,
                        {"n_estimators", "n_features", "features", "metrics"},
                        {"precision", "recall", "f1", "roc_auc"})
        /\ pc = "failed" => trace[Len(trace)] = "validate"
        /\ InTrace("schema") => metadata = fs[METADATA_FILE].body

\* C18, its case: export_onnx has run to its end on the pickles of
\* train_model.
C18_Witness ==
    /\ Exporting
    /\ pc = "done"
    /\ WrittenNow(FEATURE_DOC)

TenRows == [k \in 1..CF_SAMPLE_N |-> k]

\* C19: for every form of the runtime's probability output, export_to_onnx
\* and test_onnx_model extract the same vector, the class-1 probability of
\* each sample, and neither fails where the other does not.
C19_SameFraudProbabilities ==
    onnx_model # NoOnnx =>
        \A out \in {ProbaOutput(onnx_model, TenRows)} :
            /\ EX_FraudProba(out) = [numeric |-> TRUE, v |-> OnnxProba(onnx_model, TenRows)]
            /\ CF_FraudProba(out) = EX_FraudProba(out)
            /\ SubtractRaises(CF_SAMPLE_N, CF_FraudProba(out))
                  <=> SubtractRaises(CF_SAMPLE_N, EX_FraudProba(out))

UnitFraction(q) == q[2] > 0 /\ 0 <= q[1] /\ q[1] <= q[2]

\* C20: the metrics evaluate_model returns are defined and in [0, 1]:
\* precision is tp/(tp+fp), recall tp/(tp+fn), f1 their harmonic mean, and
\* each is 0 when its denominator is 0, in train_custom_features and in
\* train_model alike.
C20_MetricsDefinedOrZero ==
    script \in Training /\ metrics # NoMetrics =>
        \A cm \in {Confusion(model, evalInput.test)} :
            /\ UnitFraction(metrics.precision)
            /\ UnitFraction(metrics.recall)
            /\ UnitFraction(metrics.f1)
            /\ metrics.precision = IF cm.tp + cm.fp > 0 THEN <<cm.tp, cm.tp + cm.fp>> ELSE Zero
            /\ metrics.recall = IF cm.tp + cm.fn > 0 THEN <<cm.tp, cm.tp + cm.fn>> ELSE Zero
            /\ metrics.f1 = IF cm.tp > 0 THEN <<2 * cm.tp, 2 * cm.tp + cm.fp + cm.fn>> ELSE Zero


Reported(mark, of) == \E i \in 1..Len(output) : output[i] = Line(mark, of)

\* C21: verify_setup reports SUCCESS only if all eight imports succeeded and
\* test_basic_functionality returned True.  The imports are attempted in the
\* order pandas, sklearn, imblearn, onnx, skl2onnx, onnxruntime, matplotlib,
\* seaborn, each only after all earlier ones succeeded; an import that raises
\* ImportError makes verify_imports return False with none of the later ones
\* attempted (one that raises anything else ends the run there); and
\* test_basic_functionality runs only after verify_imports returned True,
\* that is after all eight imports succeeded.
C21_SuccessOnlyAfterImportsAndTest ==
    script = "verify_setup" =>
        /\ Reported("SUCCESS", "environment") =>
              /\ \A k \in 1..Len(Imports) :
                    /\ packages[Imports[k]] = "ok"
                    /\ Reported("ok", Imports[k])
              /\ Reported("ok", "test_basic_functionality")
              /\ Before("test_basic_functionality", "report")
        /\ \A k \in 1..Len(Imports) :
              InTrace(Imports[k]) =>
                  /\ trace[k + 1] = Imports[k]
                  /\ \A j \in 1..(k - 1) :
                        /\ trace[j + 1] = Imports[j]
                        /\ packages[Imports[j]] = "ok"
                  /\ packages[Imports[k]] = "missing" /\ pc # Imports[k] =>
                        /\ pc \in {"returned_False", "done"}
                        /\ \A i \in (k + 2)..Len(trace) : trace[i] = "report"
                        /\ ~Reported("SUCCESS", "environment")
                  /\ packages[Imports[k]] = "broken" =>
                        /\ pc = "failed"
                        /\ Len(trace) = k + 1
        /\ InTrace("test_basic_functionality") =>
              /\ \A k \in 1..Len(Imports) :
                    /\ packages[Imports[k]] = "ok"
                    /\ Before(Imports[k], "test_basic_functionality")
              /\ trace[Len(Imports) + 2] = "test_basic_functionality"

\* A run that reported SUCCESS.
C21_Witness ==
    /\ script = "verify_setup"
    /\ pc = "done"
    /\ Reported("SUCCESS", "environment")
    /\ InTrace("test_basic_functionality")
====
